---- MODULE Spec2Model ----
(***************************************************************************)
(* A model of config_savvy (src/src/config_savvy/__init__.py): Options,    *)
(* Configs with their upstream readers, merge (__add__), flatten, lookup   *)
(* (get_option), resolution (Option.resolve / Config.resolve), the value   *)
(* sources (EnvConfigReader, IniConfigReader) and cache().                 *)
(***************************************************************************)
EXTENDS Integers, Sequences, FiniteSets, TLC

(* ---------------------------- bounds ---------------------------------- *)
MaxConfigs == 3
MaxReaders == 3

(* ---------------------------- values ---------------------------------- *)
\* UnsetParameter: the sentinel for "no value given"
UnsetParameter == [t |-> "unset", v |-> 0]
StrVal(n) == [t |-> "str", v |-> n]
IntVal(n) == [t |-> "int", v |-> n]

\* section=None
NoSection == "None"
Sections == {NoSection, "S1"}

\* option names are sequences of characters, so that upper() and the
\* INI parser's lower-casing of keys are real conversions
Names == {<<"p">>, <<"U">>}

\* the processors a caller passes: None (replaced by lambda x: x) or int
Processors == {"identity", "int"}

ApplyProcessor(proc, x) ==
    IF proc = "int" THEN IntVal(x.v) ELSE x

UpperChar(ch) ==
    CASE ch = "p" -> "P"
      [] ch = "u" -> "U"
      [] ch = "x" -> "X"
      [] OTHER -> ch

LowerChar(ch) ==
    CASE ch = "P" -> "p"
      [] ch = "U" -> "u"
      [] ch = "X" -> "x"
      [] OTHER -> ch

Upper(str) == [i \in 1..Len(str) |-> UpperChar(str[i])]
Lower(str) == [i \in 1..Len(str) |-> LowerChar(str[i])]

(* ---------------------------- errors ---------------------------------- *)
\* the outcome of a call: a returned value or a raised exception with its
\* attempts list; tried lists the value sources whose resolve() was called
Raise(err, attempts, tried) ==
    [kind |-> "raise", err |-> err, attempts |-> attempts, val |-> UnsetParameter, tried |-> tried]
Return(val, tried) ==
    [kind |-> "return", err |-> "", attempts |-> <<>>, val |-> val, tried |-> tried]

Attempt(by, where) == [by |-> by, where |-> where]

(* ------------------------- value sources ------------------------------ *)
\* the value sources that exist: one EnvConfigReader and two
\* IniConfigReaders over the same file
Sources == {"env", "ini", "ini1"}

EnvPrefix(src) == <<>>

IniSections(src) ==
    IF src = "ini" THEN <<"s1", "s2">> ELSE <<"nosuch">>

\* the parsed INI file: [DEFAULT] x = 9, [s1] (empty), [s2] p = 50
IniDefaults == (<<"x">> :> StrVal(9))
IniFile == [s1 |-> <<>>, s2 |-> (<<"p">> :> StrVal(50))]

\* the environments the process may run in
Environments ==
    { (<<"P">> :> StrVal(33)),
      <<>> }


(* ----------------------------- state ---------------------------------- *)
VARIABLES
    configs,    \* the Config objects, in creation order: _options, readers, section
    opts,       \* the Option objects, by identity
    env,        \* os.environ
    last        \* the last call made and what it returned or raised

vars == <<configs, opts, env, last>>

\* an entry of a readers list: a Config (cfg > 0) or a value source
CfgRef(i) == [cfg |-> i, src |-> ""]
SrcRef(s) == [cfg |-> 0, src |-> s]

\* isinstance(rd, BaseConfigReader)
IsReader(rd) == rd.cfg = 0

ConfigIds == 1..Len(configs)

\* the identity of an Option object: the Config it was created for and its
\* name and section (a Config keeps one Option per name and section)
OptionId(c, name, section) == <<c, name, section>>
OptionIds == DOMAIN opts
NoOption == OptionId(0, <<>>, "None")

\* Option.__eq__ / __hash__: equal iff name and section are equal
OptionEq(os, o1, o2) ==
    os[o1].section = os[o2].section /\ os[o1].name = os[o2].name

\* set.add / set |= : an element equal to one already in the set is not added
SetUpdate(os, S, T) ==
    S \cup {o \in T : \A p \in S : ~OptionEq(os, p, o)}

(* ------------------------- value sources ------------------------------ *)
\* EnvConfigReader._env_name
EnvName(src, name) == Upper(EnvPrefix(src) \o name)

\* EnvConfigReader.resolve
EnvResolve(src, name) ==
    IF EnvName(src, name) \in DOMAIN env
    THEN Return(env[EnvName(src, name)], <<src>>)
    ELSE Raise("UnassignedOptionError", <<Attempt("EnvConfigReader", "environ")>>, <<src>>)

\* self._config[section][option.name]: the parser lower-cases the key, and a
\* key missing from an existing section is looked up in [DEFAULT]
IniLookup(section, name) ==
    IF section \notin DOMAIN IniFile THEN Raise("KeyError", <<>>, <<>>)
    ELSE IF Lower(name) \in DOMAIN IniFile[section]
         THEN Return(IniFile[section][Lower(name)], <<>>)
         ELSE IF Lower(name) \in DOMAIN IniDefaults
              THEN Return(IniDefaults[Lower(name)], <<>>)
              ELSE Raise("KeyError", <<>>, <<>>)

RECURSIVE IniLoop(_, _, _, _)
IniLoop(src, k, name, attempts) ==
    IF k > Len(IniSections(src))
    THEN Raise("UnassignedOptionError", attempts, <<src>>)
    ELSE LET r == IniLookup(IniSections(src)[k], name)
         IN IF r.kind = "return"
            THEN Return(r.val, <<src>>)
            ELSE IniLoop(src, k + 1, name,
                         Append(attempts, Attempt("IniConfigReader", IniSections(src)[k])))

\* a faulty variant: one attempt per reader, whatever the number of sections
IniResolveOneAttempt(src, name) ==
    LET r == IniLoop(src, 1, name, <<>>)
    IN IF r.kind = "return" THEN r
       ELSE Raise(r.err, <<Attempt("IniConfigReader", "sections")>>, r.tried)

\* IniConfigReader.resolve
IniResolve(src, name) == IniLoop(src, 1, name, <<>>)

\* reader.resolve(option) on a value source
ReaderResolve(src, name) ==
    IF src = "env" THEN EnvResolve(src, name) ELSE IniResolve(src, name)

(* ------------------------------ Option -------------------------------- *)
\* Option.value
OptionValue(os, o) ==
    IF os[o].value # UnsetParameter
    THEN Return(ApplyProcessor(os[o].processor, os[o].value), <<>>)
    ELSE Raise("UnassignedParameterError", <<>>, <<>>)

\* Option.default
OptionDefault(os, o) ==
    IF os[o].default # UnsetParameter
    THEN Return(ApplyProcessor(os[o].processor, os[o].default), <<>>)
    ELSE Raise("UnassignedParameterError", <<>>, <<>>)

\* Option.bind
Bind(os, o, c) == [os EXCEPT ![o].resolver = c]

(* ------------------------------ Config -------------------------------- *)
\* a faulty variant: the readers in append order
InAppendOrder(rds) == rds

\* reversed(self.readers)
Reversed(rds) == [k \in 1..Len(rds) |-> rds[Len(rds) + 1 - k]]

\* a faulty variant: the value sources, most recently appended first
LocalReadersNewestFirst(c) == Reversed(SelectSeq(configs[c].readers, IsReader))

\* [rd for rd in self.readers if isinstance(rd, BaseConfigReader)]
LocalReaders(c) == SelectSeq(configs[c].readers, IsReader)

RECURSIVE ResolveLoop(_, _, _, _, _)
ResolveLoop(rds, k, name, attempts, tried) ==
    IF k > Len(rds)
    THEN Raise("UnassignedOptionError", attempts, tried)
    ELSE LET r == ReaderResolve(rds[k].src, name)
         IN IF r.kind = "return"
            THEN Return(r.val, tried \o r.tried)
            ELSE ResolveLoop(rds, k + 1, name, attempts \o r.attempts, tried \o r.tried)

\* Config.resolve
ConfigResolve(os, c, o) ==
    IF \A p \in configs[c].options : ~OptionEq(os, p, o)
    THEN Raise("ConfigError", <<>>, <<>>)
    ELSE ResolveLoop(LocalReaders(c), 1, os[o].name, <<>>, <<>>)

\* a faulty variant: the bound Config is asked before the explicit value is looked at
OptionResolveSourceFirst(os, o) ==
    LET r == IF os[o].resolver # 0
             THEN ConfigResolve(os, os[o].resolver, o)
             ELSE Raise("UnassignedOptionError", <<>>, <<>>)
        v == OptionValue(os, o)
        d == OptionDefault(os, o)
    IN IF r.kind = "return" \/ r.err # "UnassignedOptionError" THEN r
       ELSE IF v.kind = "return" THEN Return(v.val, r.tried)
       ELSE IF d.kind = "return" THEN Return(d.val, r.tried)
       ELSE Raise(r.err, Append(r.attempts, Attempt("Option", "default")), r.tried)

\* Option.resolve
OptionResolve(os, o) ==
    LET v == OptionValue(os, o)
    IN IF v.kind = "return" THEN v
       ELSE LET r == IF os[o].resolver # 0
                     THEN ConfigResolve(os, os[o].resolver, o)
                     ELSE Raise("UnassignedOptionError", <<>>, <<>>)
            IN IF r.kind = "raise" /\ r.err = "UnassignedOptionError"
               THEN LET d == OptionDefault(os, o)
                    IN IF d.kind = "return"
                       THEN Return(d.val, r.tried)
                       ELSE Raise(r.err, Append(r.attempts, Attempt("Option", "default")), r.tried)
               ELSE r

\* the outcome of get_option: the Option found and the Config that found it
\* among its own _options (and binds it), or the exception raised
Found(o, c) == [kind |-> "return", err |-> "", opt |-> o, owner |-> c]
NotFound(err) == [kind |-> "raise", err |-> err, opt |-> NoOption, owner |-> 0]

\* the exception get_option raises when its loops end without a hit
GetOptionMiss == NotFound("UnassignedOptionError")

RECURSIVE get_option(_, _, _), WalkReaders(_, _, _, _)
\* Config.get_option / BaseConfigReader.get_option
get_option(node, name, section) ==
    IF IsReader(node) THEN NotFound("UndefinedOptionError")
    ELSE LET own == {o \in configs[node.cfg].options :
                        opts[o].name = name /\ opts[o].section = section}
         IN IF own # {}
            THEN Found(CHOOSE o \in own : TRUE, node.cfg)
            ELSE WalkReaders(Reversed(configs[node.cfg].readers), 1, name, section)

\* the loop over the readers: only UndefinedOptionError lets it continue
WalkReaders(rds, k, name, section) ==
    IF k > Len(rds) THEN GetOptionMiss
    ELSE LET r == get_option(rds[k], name, section)
         IN IF r.kind = "return" THEN r
            ELSE IF r.err = "UndefinedOptionError"
                 THEN WalkReaders(rds, k + 1, name, section)
                 ELSE r

\* the Option objects after get_option: the Option found is bound to the
\* Config that found it
AfterGetOption(r) ==
    IF r.kind = "return" THEN Bind(opts, r.opt, r.owner) ELSE opts

\* Config.__getitem__ with a (name, section) tuple
GetItem(c, name, section) ==
    LET g == get_option(CfgRef(c), name, section)
    IN IF g.kind = "raise"
       THEN Raise(g.err, <<>>, <<>>)
       ELSE OptionResolve(AfterGetOption(g), g.opt)

RECURSIVE get_flat(_, _), FlatLoop(_, _, _, _)
\* BaseConfig.get_flat: cs are the Configs as the calls made so far left them
\* (options |= new_options updates the _options of the Config it runs on)
get_flat(cs, node) ==
    IF IsReader(node) THEN [cs |-> cs, options |-> {}, readers |-> <<node>>]
    ELSE FlatLoop(cs, node.cfg, 1, <<>>)

FlatLoop(cs, c, k, readers) ==
    IF k > Len(cs[c].readers)
    THEN [cs |-> cs, options |-> cs[c].options, readers |-> readers]
    ELSE LET r == get_flat(cs, cs[c].readers[k])
         IN FlatLoop([r.cs EXCEPT ![c].options = SetUpdate(opts, r.cs[c].options, r.options)],
                     c, k + 1, readers \o r.readers)

\* Config.options
OwnedOptions(c) == configs[c].options \cup {}

\* the dict cache() builds when every option resolves
CacheDict(c) ==
    [key \in {<<opts[o].section, opts[o].name>> : o \in OwnedOptions(c)} |->
        LET o == CHOOSE p \in OwnedOptions(c) : <<opts[p].section, opts[p].name>> = key
        IN OptionResolve(opts, o).val]

\* the outcomes of cache(): the dict, or the exception of an option that
\* does not resolve (which one is met first depends on the set's order)
CacheOutcomes(c) ==
    LET failed == {o \in OwnedOptions(c) : OptionResolve(opts, o).kind = "raise"}
    IN IF failed = {}
       THEN {[kind |-> "return", err |-> "", attempts |-> <<>>, dict |-> CacheDict(c)]}
       ELSE {[kind |-> "raise", err |-> OptionResolve(opts, o).err,
              attempts |-> OptionResolve(opts, o).attempts, dict |-> <<>>] : o \in failed}

(* ----------------------------- actions -------------------------------- *)
NoResult == [kind |-> "none"]

Call(op, c, name, section, res) ==
    [op |-> op, cfg |-> c, name |-> name, section |-> section, res |-> res]

\* Option(name, default, value, processor, section).bind(c)
NewOption(c, name, section, kind) ==
    [name |-> name, section |-> section, value |-> kind.value, default |-> kind.default,
     processor |-> kind.processor, resolver |-> c]

\* the Options a caller defines: (value, default, processor)
Unassigned == [value |-> UnsetParameter, default |-> UnsetParameter, processor |-> "identity"]
Defaulted == [value |-> UnsetParameter, default |-> IntVal(3), processor |-> "int"]
Valued == [value |-> StrVal(2), default |-> IntVal(3), processor |-> "int"]
ValuedOnly == [value |-> StrVal(5), default |-> UnsetParameter, processor |-> "identity"]
OptionKinds == {Unassigned, Defaulted, Valued}

\* the options lists a Config is constructed with
OptionArg(name, section, kind) == [name |-> name, section |-> section, kind |-> kind]
OptionLists ==
    { <<>>,
      <<OptionArg(<<"p">>, NoSection, Valued)>>,
      <<OptionArg(<<"p">>, NoSection, Defaulted), OptionArg(<<"p">>, "S1", Unassigned)>> }

InitCall == Call("init", 0, <<>>, NoSection, NoResult)

\* Config(options=ol, readers=rds): set([option.bind(self) for option in options])
NewConfig(rds, ol) ==
    LET c == Len(configs) + 1
        ids == {OptionId(c, ol[k].name, ol[k].section) : k \in 1..Len(ol)}
    IN /\ Len(configs) < MaxConfigs
       /\ opts' = [o \in OptionIds \cup ids |->
                     IF o \in OptionIds THEN opts[o]
                     ELSE LET k == CHOOSE j \in 1..Len(ol) :
                                      OptionId(c, ol[j].name, ol[j].section) = o
                          IN NewOption(c, ol[k].name, ol[k].section, ol[k].kind)]
       /\ configs' = Append(configs, [options |-> ids, readers |-> rds, section |-> NoSection])
       /\ last' = Call("Config", c, <<>>, NoSection, NoResult)
       /\ UNCHANGED env

\* c.add_option(name, default, value, processor, section)
AddOption(c, name, section, kind) ==
    LET sec == IF section # NoSection THEN section ELSE configs[c].section
        new == OptionId(c, name, sec)
        present == \E p \in configs[c].options :
                       opts[p].name = name /\ opts[p].section = sec
    IN /\ opts' = IF present THEN opts
                  ELSE [o \in OptionIds \cup {new} |->
                           IF o = new THEN NewOption(c, name, sec, kind) ELSE opts[o]]
       /\ configs' = [configs EXCEPT ![c].section = sec,
                                     ![c].options = IF present THEN @ ELSE @ \cup {new}]
       /\ last' = Call("add_option", c, name, sec, NoResult)
       /\ UNCHANGED env

\* c.add_reader(reader) with a value source
AddReader(c, src) ==
    /\ Len(configs[c].readers) < MaxReaders
    /\ configs' = [configs EXCEPT ![c].readers = Append(@, SrcRef(src))]
    /\ last' = Call("add_reader", c, <<>>, NoSection, NoResult)
    /\ UNCHANGED <<opts, env>>

\* a + b
Add(a, b) ==
    /\ Len(configs) < MaxConfigs
    /\ configs' = Append(configs, [options |-> {}, readers |-> <<CfgRef(a), CfgRef(b)>>,
                                   section |-> NoSection])
    /\ last' = Call("add", Len(configs) + 1, <<>>, NoSection, NoResult)
    /\ UNCHANGED <<opts, env>>

\* c.flatten()
Flatten(c) ==
    LET r == get_flat(configs, CfgRef(c))
    IN /\ configs' = [r.cs EXCEPT ![c].options = r.options, ![c].readers = r.readers]
       /\ last' = Call("flatten", c, <<>>, NoSection, NoResult)
       /\ UNCHANGED <<opts, env>>

\* c.get_option(name, section)
GetOptionCall(c, name, section) ==
    LET r == get_option(CfgRef(c), name, section)
    IN /\ opts' = AfterGetOption(r)
       /\ last' = Call("get_option", c, name, section, r)
       /\ UNCHANGED <<configs, env>>

\* c[(name, section)]
GetItemCall(c, name, section) ==
    /\ opts' = AfterGetOption(get_option(CfgRef(c), name, section))
    /\ last' = Call("getitem", c, name, section, GetItem(c, name, section))
    /\ UNCHANGED <<configs, env>>

\* c.resolve(option)
ResolveCall(c, o) ==
    /\ last' = Call("resolve", c, opts[o].name, opts[o].section, ConfigResolve(opts, c, o))
    /\ UNCHANGED <<configs, opts, env>>

\* c.cache()
CacheCall(c) ==
    /\ \E res \in CacheOutcomes(c) :
          last' = Call("cache", c, <<>>, NoSection, res)
    /\ UNCHANGED <<configs, opts, env>>

(* ------------- merging: Configs built whole, merged, flattened --------- *)
MergeEnv == (<<"P">> :> StrVal(33))

Init ==
    /\ configs = <<>>
    /\ opts = <<>>
    /\ env = MergeEnv
    /\ last = InitCall

Next ==
    \/ \E ol \in OptionLists : NewConfig(<<SrcRef("env")>>, ol)
    \/ \E a \in ConfigIds, b \in ConfigIds : Add(a, b)
    \/ \E c \in ConfigIds : Flatten(c)
    \/ \E c \in ConfigIds, section \in Sections : GetOptionCall(c, <<"p">>, section)
    \/ \E c \in ConfigIds, section \in Sections : GetItemCall(c, <<"p">>, section)
    \/ \E c \in ConfigIds : CacheCall(c)

Spec == Init /\ [][Next]_vars

(* ------------- live view: options added after the merge ---------------- *)
NextLive ==
    \/ \E ol \in OptionLists : NewConfig(<<SrcRef("env")>>, ol)
    \/ \E c \in ConfigIds, section \in Sections, kind \in {Defaulted, Valued} :
          AddOption(c, <<"p">>, section, kind)
    \/ \E a \in ConfigIds, b \in ConfigIds : Add(a, b)
    \/ \E c \in ConfigIds, section \in Sections : GetOptionCall(c, <<"p">>, section)
    \/ \E c \in ConfigIds, section \in Sections : GetItemCall(c, <<"p">>, section)

SpecLive == Init /\ [][NextLive]_vars

(* ------------- resolution: one Config over another, and sources -------- *)
\* base = Config(options=[Option('p', value='5')], readers=[EnvConfigReader()])
\* top = Config(readers=[base])
Base == 1
Top == 2

InitResolve ==
    /\ configs = << [options |-> {OptionId(Base, <<"p">>, NoSection)},
                     readers |-> <<SrcRef("env")>>, section |-> NoSection],
                    [options |-> {}, readers |-> <<CfgRef(Base)>>, section |-> NoSection] >>
    /\ opts = (OptionId(Base, <<"p">>, NoSection) :> NewOption(Base, <<"p">>, NoSection, ValuedOnly))
    /\ env \in Environments
    /\ last = InitCall

NextResolve ==
    \/ \E c \in ConfigIds, name \in Names, kind \in OptionKinds :
          AddOption(c, name, NoSection, kind)
    \/ \E src \in Sources : AddReader(Top, src)
    \/ \E c \in ConfigIds, name \in Names, section \in Sections : GetItemCall(c, name, section)
    \/ \E c \in ConfigIds, o \in OptionIds : ResolveCall(c, o)
    \/ \E c \in ConfigIds : CacheCall(c)

SpecResolve == InitResolve /\ [][NextResolve]_vars

(* ------------------------------ claims -------------------------------- *)
Keys == Names \X Sections

\* c holds an Option with this name and section in its own _options
Owns(c, name, section) ==
    \E o \in configs[c].options : opts[o].name = name /\ opts[o].section = section

OwnOption(c, name, section) ==
    CHOOSE o \in configs[c].options : opts[o].name = name /\ opts[o].section = section

\* c has no Config among its readers
IsLeaf(c) == \A k \in 1..Len(configs[c].readers) : IsReader(configs[c].readers[k])

\* m is as a + b built it: no options of its own, readers [a, b]
IsMergeOf(m, a, b) ==
    /\ configs[m].options = {}
    /\ configs[m].readers = <<CfgRef(a), CfgRef(b)>>

\* the Configs reachable from c: itself and its upstream Configs at any depth
RECURSIVE Reachable(_)
Reachable(c) ==
    {c} \cup UNION {Reachable(configs[c].readers[k].cfg) :
                       k \in {j \in 1..Len(configs[c].readers) : ~IsReader(configs[c].readers[j])}}

\* the state part of C1: on a + b, where a and b both own (name, section),
\* get_option yields b's Option and item access yields what b yields; a
\* queried directly yields its own Option.
C1_RightOperandWins ==
    \A m \in ConfigIds, a \in ConfigIds, b \in ConfigIds, key \in Keys :
        (IsMergeOf(m, a, b) /\ Owns(a, key[1], key[2]) /\ Owns(b, key[1], key[2])) =>
            /\ get_option(CfgRef(m), key[1], key[2]) = Found(OwnOption(b, key[1], key[2]), b)
            /\ GetItem(m, key[1], key[2]) = GetItem(b, key[1], key[2])
            /\ get_option(CfgRef(a), key[1], key[2]) = Found(OwnOption(a, key[1], key[2]), a)

\* the step part of C1: a + b changes neither a nor b nor any Option.
C1_MergeLeavesOperands ==
    \A a \in ConfigIds, b \in ConfigIds :
        (last'.op = "add" /\ configs'[last'.cfg].readers = <<CfgRef(a), CfgRef(b)>>) =>
            /\ configs'[a] = configs[a]
            /\ configs'[b] = configs[b]
            /\ opts' = opts

\* C1: merge precedence is directional: (a + b) yields b's option and value
\* for a (name, section) both own, (b + a) yields a's, and the merge leaves a
\* and b unchanged.
C1_MergePrecedence == [](C1_RightOperandWins) /\ [][C1_MergeLeavesOperands]_vars

\* C1 witness: item access on a + b, a and b distinct and both owning the
\* key with different values, has returned b's value.
C1_Witness ==
    /\ last.op = "getitem"
    /\ last.res.kind = "return"
    /\ \E a \in ConfigIds, b \in ConfigIds :
          /\ a # b
          /\ IsMergeOf(last.cfg, a, b)
          /\ Owns(a, last.name, last.section)
          /\ Owns(b, last.name, last.section)
          /\ last.res = GetItem(b, last.name, last.section)
          /\ last.res # GetItem(a, last.name, last.section)

\* C2 (as claimed): on base + override, where base owns (name, section) and
\* override, a Config with no upstream Config, does not, get_option yields
\* base's Option and item access yields what base yields.
C2_FallsThroughToBase ==
    \A m \in ConfigIds, base \in ConfigIds, override \in ConfigIds, key \in Keys :
        (/\ IsMergeOf(m, base, override)
         /\ IsLeaf(override)
         /\ Owns(base, key[1], key[2])
         /\ ~Owns(override, key[1], key[2])) =>
            /\ get_option(CfgRef(m), key[1], key[2])
                  = Found(OwnOption(base, key[1], key[2]), base)
            /\ GetItem(m, key[1], key[2]) = GetItem(base, key[1], key[2])

\* C3 (as claimed): when no Config reachable from c owns (name, section),
\* get_option and item access raise UndefinedOptionError.
C3_MissIsUndefinedOption ==
    \A c \in ConfigIds, key \in Keys :
        (\A d \in Reachable(c) : ~Owns(d, key[1], key[2])) =>
            /\ get_option(CfgRef(c), key[1], key[2]) = NotFound("UndefinedOptionError")
            /\ GetItem(c, key[1], key[2]) = Raise("UndefinedOptionError", <<>>, <<>>)

\* C7 (as claimed): for every option (name, section) that item access on c
\* reads, cache() returns a dict that has the entry with the same value.
C7_CacheRoundTrip ==
    \A c \in ConfigIds, key \in Keys :
        GetItem(c, key[1], key[2]).kind = "return" =>
            \A res \in CacheOutcomes(c) :
                /\ res.kind = "return"
                /\ <<key[2], key[1]>> \in DOMAIN res.dict
                /\ res.dict[<<key[2], key[1]>>] = GetItem(c, key[1], key[2]).val

\* C8 (as claimed): right after base.add_option(name, section), every
\* existing base + override whose override, a Config with no upstream
\* Config, does not own (name, section) yields base's Option for it.
C8_MergeSeesLaterOption ==
    last.op = "add_option" =>
        \A m \in ConfigIds, override \in ConfigIds :
            (/\ IsMergeOf(m, last.cfg, override)
             /\ IsLeaf(override)
             /\ ~Owns(override, last.name, last.section)) =>
                get_option(CfgRef(m), last.name, last.section)
                    = Found(OwnOption(last.cfg, last.name, last.section), last.cfg)

\* the step of C10: c.flatten() changes neither the Option that
\* c.get_option(name, section) yields, nor the value of c[(name, section)],
\* for the (name, section) it found before, nor the _options of any other
\* Config.
C10_FlattenStep ==
    \A c \in ConfigIds :
        (last'.op = "flatten" /\ last'.cfg = c) =>
            /\ \A key \in {k \in Keys : get_option(CfgRef(c), k[1], k[2]).kind = "return"} :
                  /\ get_option(CfgRef(c), key[1], key[2]).opt
                        = (get_option(CfgRef(c), key[1], key[2]).opt)'
                  /\ GetItem(c, key[1], key[2]) = (GetItem(c, key[1], key[2]))'
            /\ \A d \in ConfigIds \ {c} : configs'[d].options = configs[d].options

\* C10 (as claimed): flatten() preserves lookup precedence: every step that
\* is a c.flatten() leaves the Option and the value that c yields for each
\* (name, section), and the _options of the other Configs, as they were.
C10_FlattenKeepsPrecedence == [][C10_FlattenStep]_vars

\* the Config an Option is bound to holds it (or an equal one)
BoundToOwner(o) ==
    /\ opts[o].resolver # 0
    /\ \E p \in configs[opts[o].resolver].options : OptionEq(opts, p, o)

\* the names of the value sources among c's readers, in append order
RECURSIVE SourcesOf(_)
SourcesOf(rds) ==
    IF rds = <<>> THEN <<>>
    ELSE IF Head(rds).src # "" THEN <<Head(rds).src>> \o SourcesOf(Tail(rds))
         ELSE SourcesOf(Tail(rds))

\* the entries a value source adds to the attempts when it has no entry
RECURSIVE AttemptsOfMisses(_)
AttemptsOfMisses(srcs) ==
    IF srcs = <<>> THEN 0
    ELSE (IF Head(srcs) = "env" THEN 1 ELSE Len(IniSections(Head(srcs))))
         + AttemptsOfMisses(Tail(srcs))

\* C4 (as claimed): an Option with no explicit value, a default and a
\* processor f, bound to a Config whose sources yield v, reads as f(v).
C4_SourceValueTransformed ==
    \A o \in OptionIds :
        (/\ opts[o].value = UnsetParameter
         /\ opts[o].default # UnsetParameter
         /\ BoundToOwner(o)
         /\ ConfigResolve(opts, opts[o].resolver, o).kind = "return") =>
            /\ OptionResolve(opts, o).kind = "return"
            /\ OptionResolve(opts, o).val
                  = ApplyProcessor(opts[o].processor,
                                   ConfigResolve(opts, opts[o].resolver, o).val)

\* C5: an Option with an explicit value x and processor f reads as f(x),
\* whatever its default and whatever the sources of its Config hold, and no
\* value source is consulted; the same through item access.
C5_ExplicitValueWins ==
    /\ \A o \in OptionIds :
          opts[o].value # UnsetParameter =>
              OptionResolve(opts, o)
                  = Return(ApplyProcessor(opts[o].processor, opts[o].value), <<>>)
    /\ \A c \in ConfigIds, key \in Keys :
          LET g == get_option(CfgRef(c), key[1], key[2])
          IN (g.kind = "return" /\ opts[g.opt].value # UnsetParameter) =>
                GetItem(c, key[1], key[2])
                    = Return(ApplyProcessor(opts[g.opt].processor, opts[g.opt].value), <<>>)

\* C5 witness: item access has returned int('2') = 2 for an Option of a
\* Config whose first value source has an entry for its name.
C5_Witness ==
    /\ last.op = "getitem"
    /\ last.cfg = Top
    /\ Owns(Top, last.name, last.section)
    /\ opts[OwnOption(Top, last.name, last.section)].value = StrVal(2)
    /\ LocalReaders(Top) # <<>>
    /\ ReaderResolve(LocalReaders(Top)[1].src, last.name).kind = "return"
    /\ last.res = Return(IntVal(2), <<>>)

\* C6 (as claimed): an Option with no explicit value and no default, whose
\* Config's sources all have no entry, fails with UnassignedOptionError and
\* one attempts entry per value source tried.
C6_OneAttemptPerSource ==
    \A o \in OptionIds :
        (/\ opts[o].value = UnsetParameter
         /\ opts[o].default = UnsetParameter
         /\ BoundToOwner(o)
         /\ ConfigResolve(opts, opts[o].resolver, o).kind = "raise") =>
            /\ OptionResolve(opts, o).kind = "raise"
            /\ OptionResolve(opts, o).err = "UnassignedOptionError"
            /\ Len(OptionResolve(opts, o).attempts) = Len(OptionResolve(opts, o).tried)

\* C6 (amended): such an Option fails with UnassignedOptionError, every
\* value source of its Config was tried, in order, and the attempts hold one
\* entry per EnvConfigReader, one per configured section of each
\* IniConfigReader, and a last one for the missing default.
C6_AttemptsPerSectionPlusDefault ==
    \A o \in OptionIds :
        (/\ opts[o].value = UnsetParameter
         /\ opts[o].default = UnsetParameter
         /\ BoundToOwner(o)
         /\ ConfigResolve(opts, opts[o].resolver, o).kind = "raise") =>
            LET r == OptionResolve(opts, o)
                srcs == SourcesOf(configs[opts[o].resolver].readers)
            IN /\ r.kind = "raise"
               /\ r.err = "UnassignedOptionError"
               /\ r.tried = srcs
               /\ Len(r.attempts) = AttemptsOfMisses(srcs) + 1
               /\ r.attempts[Len(r.attempts)] = Attempt("Option", "default")

\* C6 witness: item access has failed after an EnvConfigReader and an
\* IniConfigReader with two sections were tried: four attempts.
C6_Witness ==
    /\ last.op = "getitem"
    /\ last.res.kind = "raise"
    /\ last.res.err = "UnassignedOptionError"
    /\ last.res.tried = <<"env", "ini">>
    /\ Len(last.res.attempts) = 4

\* C9: Config.resolve consults the value sources among the readers, never
\* an upstream Config, in append order, stops at the first that has an entry
\* and returns its value; it fails when none has one.
C9_FirstSourceWins ==
    \A c \in ConfigIds, o \in OptionIds :
        (\E p \in configs[c].options : OptionEq(opts, p, o)) =>
            LET srcs == SourcesOf(configs[c].readers)
                hits == {k \in 1..Len(srcs) : ReaderResolve(srcs[k], opts[o].name).kind = "return"}
                r == ConfigResolve(opts, c, o)
            IN IF hits = {}
               THEN r.kind = "raise" /\ r.err = "UnassignedOptionError" /\ r.tried = srcs
               ELSE LET first == CHOOSE k \in hits : \A j \in hits : k <= j
                    IN /\ r.kind = "return"
                       /\ r.val = ReaderResolve(srcs[first], opts[o].name).val
                       /\ r.tried = SubSeq(srcs, 1, first)

\* C9 witness: resolve on a Config with readers [base, ini, env], where ini
\* and env both have the option, has returned ini's value without asking env.
C9_Witness ==
    /\ last.op = "resolve"
    /\ last.cfg = Top
    /\ configs[Top].readers = <<CfgRef(Base), SrcRef("ini"), SrcRef("env")>>
    /\ ReaderResolve("env", last.name).kind = "return"
    /\ last.res = Return(StrVal(50), <<"ini">>)

====
